---- MODULE Spec2Model ----
(***************************************************************************)
(* Wolffia desktop backend: the six Tauri commands of commands.rs and the  *)
(* bootstrap of lib.rs, over a model of the filesystem primitives          *)
(* (std::fs on a POSIX host) and of the native file picker.                *)
(*                                                                         *)
(* A path is the string the front end passes, modelled as a sequence of    *)
(* one-character strings.  Relative paths are resolved against the         *)
(* process's working directory, which is the root of the modelled tree.    *)
(* File contents are Rust Strings (sequences of Unicode scalar values);    *)
(* files hold bytes, so writing encodes to UTF-8 and reading validates     *)
(* and decodes it.                                                         *)
(***************************************************************************)
EXTENDS Integers, Sequences, FiniteSets, TLC

VARIABLES
    pc,        \* "start" before run(), "running" once the event loop is up,
               \* "panicked" when run() panicked
    plugins,   \* plugins registered on the Builder by run()
    handlers,  \* command names registered with the invoke handler
    window,    \* the "main" webview window: "absent" when the configuration
               \* defines none, else "hidden", "shown" or "shown+devtools"
    picker,    \* the native file picker a dialog command is blocked on
    fs,        \* the filesystem: node -> entry
    written,   \* history: node -> content of the last successful write_file
    last       \* the last command that finished, its arguments and result

vars == <<pc, plugins, handlers, window, picker, fs, written, last>>

-----------------------------------------------------------------------------
(* Sequence helpers *)

Front(s) == SubSeq(s, 1, Len(s) - 1)

RECURSIVE Flatten(_)
Flatten(ss) == IF ss = <<>> THEN <<>> ELSE Head(ss) \o Flatten(Tail(ss))

-----------------------------------------------------------------------------
(* UTF-8: String::as_bytes / core::str::from_utf8 / String::from_utf8_lossy *)

ReplacementChar == 65533

IsCont(b) == b >= 128 /\ b <= 191

\* Mutant: every character written as one byte (Latin-1 style).
EncodeCharByte(cp) == <<cp % 256>>

\* char::encode_utf8
EncodeChar(cp) ==
    IF cp < 128 THEN <<cp>>
    ELSE IF cp < 2048 THEN <<192 + (cp \div 64), 128 + (cp % 64)>>
    ELSE IF cp < 65536 THEN
        <<224 + (cp \div 4096), 128 + ((cp \div 64) % 64), 128 + (cp % 64)>>
    ELSE <<240 + (cp \div 262144), 128 + ((cp \div 4096) % 64),
           128 + ((cp \div 64) % 64), 128 + (cp % 64)>>

\* String::as_bytes: the UTF-8 encoding of a String
AsBytes(s) == Flatten([i \in 1..Len(s) |-> EncodeChar(s[i])])

\* Width of the sequence a lead byte announces (0: not a lead byte).
Utf8Width(b) ==
    IF b < 128 THEN 1
    ELSE IF b >= 194 /\ b <= 223 THEN 2
    ELSE IF b >= 224 /\ b <= 239 THEN 3
    ELSE IF b >= 240 /\ b <= 244 THEN 4
    ELSE 0

\* The second byte of a 3- or 4-byte sequence is range-checked against the lead.
SecondOk(b1, b2) ==
    IF b1 = 224 THEN b2 >= 160 /\ b2 <= 191
    ELSE IF b1 = 237 THEN b2 >= 128 /\ b2 <= 159
    ELSE IF b1 = 240 THEN b2 >= 144 /\ b2 <= 191
    ELSE IF b1 = 244 THEN b2 >= 128 /\ b2 <= 143
    ELSE IsCont(b2)

\* One step of UTF-8 validation at the head of a non-empty byte sequence:
\* [ok, n, cp] where n is the number of bytes consumed; when ~ok, n is the
\* length of the invalid prefix (the maximal subpart replaced by U+FFFD).
Utf8Step(b) ==
    LET w == Utf8Width(b[1]) IN
    IF w = 0 THEN [ok |-> FALSE, n |-> 1, cp |-> ReplacementChar]
    ELSE IF w = 1 THEN [ok |-> TRUE, n |-> 1, cp |-> b[1]]
    ELSE IF Len(b) < 2 \/ ~SecondOk(b[1], b[2])
        THEN [ok |-> FALSE, n |-> 1, cp |-> ReplacementChar]
    ELSE IF w = 2 THEN [ok |-> TRUE, n |-> 2, cp |-> (b[1] - 192) * 64 + (b[2] - 128)]
    ELSE IF Len(b) < 3 \/ ~IsCont(b[3])
        THEN [ok |-> FALSE, n |-> 2, cp |-> ReplacementChar]
    ELSE IF w = 3 THEN
        [ok |-> TRUE, n |-> 3,
         cp |-> (b[1] - 224) * 4096 + (b[2] - 128) * 64 + (b[3] - 128)]
    ELSE IF Len(b) < 4 \/ ~IsCont(b[4])
        THEN [ok |-> FALSE, n |-> 3, cp |-> ReplacementChar]
    ELSE [ok |-> TRUE, n |-> 4,
          cp |-> (b[1] - 240) * 262144 + (b[2] - 128) * 4096
                 + (b[3] - 128) * 64 + (b[4] - 128)]

\* String::from_utf8: [ok |-> TRUE, s |-> the String] or [ok |-> FALSE]
RECURSIVE FromUtf8(_)
FromUtf8(b) ==
    IF b = <<>> THEN [ok |-> TRUE, s |-> <<>>]
    ELSE LET st == Utf8Step(b) IN
         IF ~st.ok THEN [ok |-> FALSE, s |-> <<>>]
         ELSE LET rest == FromUtf8(SubSeq(b, st.n + 1, Len(b))) IN
              IF rest.ok THEN [ok |-> TRUE, s |-> <<st.cp>> \o rest.s]
              ELSE [ok |-> FALSE, s |-> <<>>]

\* String::from_utf8_lossy: every invalid subpart becomes one U+FFFD
RECURSIVE FromUtf8Lossy(_)
FromUtf8Lossy(b) ==
    IF b = <<>> THEN <<>>
    ELSE LET st == Utf8Step(b) IN
         <<st.cp>> \o FromUtf8Lossy(SubSeq(b, st.n + 1, Len(b)))

-----------------------------------------------------------------------------
(* Paths: std::path::PathBuf on a POSIX host *)

Sep == "/"

Names == {"a", "b"}

\* Path::components: the normal components, separators collapsed
RECURSIVE Components(_)
Components(s) ==
    IF s = <<>> THEN <<>>
    ELSE IF Head(s) = Sep THEN Components(Tail(s))
    ELSE LET rest == Components(Tail(s)) IN
         IF Len(s) >= 2 /\ s[2] # Sep
             THEN <<Head(s) \o Head(rest)>> \o Tail(rest)
             ELSE <<Head(s)>> \o rest

\* PathBuf::from(&path): root marker, components, and whether the string
\* ends in a separator after its last component (the OS sees that, the
\* component view does not).
PathBufFrom(s) ==
    [root  |-> Len(s) > 0 /\ s[1] = Sep,
     comps |-> Components(s),
     trail |-> Len(s) > 0 /\ s[Len(s)] = Sep /\ Components(s) # <<>>]

\* Path::parent: None for "" and for the root, else the path without its
\* last component.
Parent(pb) ==
    IF pb.comps = <<>> THEN [some |-> FALSE, path |-> pb]
    ELSE [some |-> TRUE,
          path |-> [root |-> pb.root, comps |-> Front(pb.comps), trail |-> FALSE]]

\* Path == Path::new("")
IsEmptyPath(pb) == ~pb.root /\ pb.comps = <<>>

-----------------------------------------------------------------------------
(* Filesystem: a tree of directories and regular files under the root *)

\* The names the modelled tree can hold: a and b under the root, a and b
\* under /a, and a under /a/b.
Nodes == {<<n>> : n \in Names} \cup {<<"a", m>> : m \in Names} \cup {<<"a", "b", "a">>}

NoEntry == [kind |-> "none", data |-> <<>>]
DirEntry == [kind |-> "dir", data |-> <<>>]
FileEntry(bytes) == [kind |-> "file", data |-> bytes]

EmptyFs == [n \in Nodes |-> NoEntry]

\* The root always exists and is a directory.
Kind(f, n) ==
    IF n = <<>> THEN "dir" ELSE IF n \in DOMAIN f THEN f[n].kind ELSE "none"

\* io::Error's Display for the OS errors the primitives can report
ENOENT == "No such file or directory (os error 2)"
EEXIST == "File exists (os error 17)"
ENOTDIR == "Not a directory (os error 20)"
EISDIR == "Is a directory (os error 21)"
InvalidUtf8 == "stream did not contain valid UTF-8"

\* Kernel path walk over the directories leading to the last component:
\* "" when every proper prefix is a directory, else the errno.
RECURSIVE WalkFrom(_, _, _)
WalkFrom(f, comps, i) ==
    IF i >= Len(comps) THEN ""
    ELSE LET k == Kind(f, SubSeq(comps, 1, i)) IN
         IF k = "none" THEN ENOENT
         ELSE IF k = "file" THEN ENOTDIR
         ELSE WalkFrom(f, comps, i + 1)

Walk(f, pb) == IF IsEmptyPath(pb) THEN ENOENT ELSE WalkFrom(f, pb.comps, 1)

\* Path::is_dir
IsDir(f, pb) == Walk(f, pb) = "" /\ Kind(f, pb.comps) = "dir"

\* mkdir(2): [ok, fs, err]
Mkdir(f, pb) ==
    LET w == Walk(f, pb) IN
    IF w # "" THEN [ok |-> FALSE, fs |-> f, err |-> w]
    ELSE IF Kind(f, pb.comps) # "none" THEN [ok |-> FALSE, fs |-> f, err |-> EEXIST]
    ELSE [ok |-> TRUE, fs |-> [f EXCEPT ![pb.comps] = DirEntry], err |-> ""]

\* Mutant: std::fs::create_dir, which creates the last directory only.
create_dir(f, pb) ==
    IF IsEmptyPath(pb) \/ IsDir(f, pb) THEN [ok |-> TRUE, fs |-> f, err |-> ""]
    ELSE Mkdir(f, pb)

\* std::fs::create_dir_all (DirBuilder with recursive(true))
RECURSIVE create_dir_all(_, _)
create_dir_all(f, pb) ==
    IF IsEmptyPath(pb) THEN [ok |-> TRUE, fs |-> f, err |-> ""]
    ELSE LET m1 == Mkdir(f, pb) IN
         IF m1.ok THEN m1
         ELSE IF m1.err # ENOENT THEN
             IF IsDir(f, pb) THEN [ok |-> TRUE, fs |-> f, err |-> ""] ELSE m1
         ELSE LET par == Parent(pb) IN
              IF ~par.some
                  THEN [ok |-> FALSE, fs |-> f, err |-> "failed to create whole tree"]
              ELSE LET up == create_dir_all(f, par.path) IN
                   IF ~up.ok THEN up
                   ELSE LET m2 == Mkdir(up.fs, pb) IN
                        IF m2.ok THEN m2
                        ELSE IF IsDir(up.fs, pb)
                            THEN [ok |-> TRUE, fs |-> up.fs, err |-> ""]
                        ELSE [ok |-> FALSE, fs |-> up.fs, err |-> m2.err]

\* open(2) of the path for writing with O_CREAT|O_TRUNC: "" or the errno.
\* With O_CREAT a path that ends in a separator is refused with EISDIR
\* once its parent has been walked, whatever the last component names.
OpenForWrite(f, pb) ==
    LET w == Walk(f, pb) IN
    IF w # "" THEN w
    ELSE IF pb.trail THEN EISDIR
    ELSE IF Kind(f, pb.comps) = "dir" THEN EISDIR
    ELSE ""

\* Mutant: the file opened without O_TRUNC, for appending.
KeepOld(old) == old

\* File::create opens with O_TRUNC: what is left of the old bytes
Truncated(old) == <<>>

\* std::fs::write: File::create (create or truncate), then write_all
fs_write(f, pb, bytes) ==
    LET e == OpenForWrite(f, pb) IN
    IF e # "" THEN [ok |-> FALSE, fs |-> f, err |-> e]
    ELSE [ok |-> TRUE,
          fs |-> [f EXCEPT ![pb.comps] = FileEntry(Truncated(f[pb.comps].data) \o bytes)],
          err |-> ""]

\* std::fs::read_to_string: open, read to the end, validate as UTF-8
fs_read_to_string(f, pb) ==
    LET w == Walk(f, pb) IN
    IF w # "" THEN [ok |-> FALSE, s |-> <<>>, err |-> w]
    ELSE LET k == Kind(f, pb.comps) IN
         IF k = "none" THEN [ok |-> FALSE, s |-> <<>>, err |-> ENOENT]
         ELSE IF k = "dir" THEN [ok |-> FALSE, s |-> <<>>, err |-> EISDIR]
         ELSE IF pb.trail THEN [ok |-> FALSE, s |-> <<>>, err |-> ENOTDIR]
         ELSE LET d == FromUtf8(f[pb.comps].data) IN
              IF d.ok THEN [ok |-> TRUE, s |-> d.s, err |-> ""]
              ELSE [ok |-> FALSE, s |-> <<>>, err |-> InvalidUtf8]

-----------------------------------------------------------------------------
(* Command results: Result<T, String>, or a panic that unwinds the handler *)

Ok(v) == [kind |-> "ok", val |-> v, msg |-> <<>>]
Err(m) == [kind |-> "err", val |-> <<>>, msg |-> m]
Panic(m) == [kind |-> "panic", val |-> <<>>, msg |-> <<m>>]

ReadPrefix == "Failed to read file: "
MkdirPrefix == "Failed to create directory: "
WritePrefix == "Failed to write file: "

\* format!("<prefix>{}", e): the static prefix followed by the error's text
Format(prefix, e) == <<prefix, e>>

\* Mutant: the OS error passed on without the context prefix.
ReadFileBare(f, p) ==
    LET r == fs_read_to_string(f, PathBufFrom(p)) IN
    IF r.ok THEN Ok(r.s) ELSE Err(<<r.err>>)

\* commands.rs read_file
ReadFile(f, p) ==
    LET r == fs_read_to_string(f, PathBufFrom(p)) IN
    IF r.ok THEN Ok(r.s) ELSE Err(Format(ReadPrefix, r.err))

\* Mutant: one prefix for both steps.
WriteFileOnePrefix(f, p, c) ==
    LET pb == PathBufFrom(p)
        par == Parent(pb)
        mk == IF par.some THEN create_dir_all(f, par.path)
              ELSE [ok |-> TRUE, fs |-> f, err |-> ""]
    IN  IF ~mk.ok THEN [res |-> Err(Format(WritePrefix, mk.err)), fs |-> mk.fs]
        ELSE LET w == fs_write(mk.fs, pb, AsBytes(c)) IN
             IF w.ok THEN [res |-> Ok(<<>>), fs |-> w.fs]
             ELSE [res |-> Err(Format(WritePrefix, w.err)), fs |-> w.fs]

\* Mutant: a failed write removes the directories the call created.
WriteFileRollback(f, p, c) ==
    LET pb == PathBufFrom(p)
        par == Parent(pb)
        mk == IF par.some THEN create_dir_all(f, par.path)
              ELSE [ok |-> TRUE, fs |-> f, err |-> ""]
    IN  IF ~mk.ok THEN [res |-> Err(Format(MkdirPrefix, mk.err)), fs |-> mk.fs]
        ELSE LET w == fs_write(mk.fs, pb, AsBytes(c)) IN
             IF w.ok THEN [res |-> Ok(<<>>), fs |-> w.fs]
             ELSE [res |-> Err(Format(WritePrefix, w.err)), fs |-> f]

\* commands.rs write_file: [res, fs]
WriteFile(f, p, c) ==
    LET pb == PathBufFrom(p)
        par == Parent(pb)
        mk == IF par.some THEN create_dir_all(f, par.path)
              ELSE [ok |-> TRUE, fs |-> f, err |-> ""]
    IN  IF ~mk.ok THEN [res |-> Err(Format(MkdirPrefix, mk.err)), fs |-> mk.fs]
        ELSE LET w == fs_write(mk.fs, pb, AsBytes(c)) IN
             IF w.ok THEN [res |-> Ok(<<>>), fs |-> w.fs]
             ELSE [res |-> Err(Format(WritePrefix, w.err)), fs |-> w.fs]

-----------------------------------------------------------------------------
(* Inputs *)

MaxContentLen == 2
MaxFilters == 1
MaxPicked == 2

RECURSIVE Join(_)
Join(comps) ==
    IF comps = <<>> THEN <<>>
    ELSE IF Len(comps) = 1 THEN <<comps[1]>>
    ELSE <<comps[1], Sep>> \o Join(Tail(comps))

\* The string spelling a path: optional leading separator, the components
\* joined by separators, optional trailing separator.
Render(root, comps, trail) ==
    (IF root THEN <<Sep>> ELSE <<>>) \o Join(comps)
        \o (IF trail /\ comps # <<>> THEN <<Sep>> ELSE <<>>)

PathComps == {<<>>} \cup Nodes

\* Path strings the front end passes: "", "/", every node spelled relative
\* with and without a trailing separator, and three other spellings of
\* nodes (absolute, doubled separator).
Paths ==
    {Render(FALSE, cs, t) : cs \in PathComps, t \in BOOLEAN}
        \cup {<<Sep>>, <<Sep, "b">>, <<Sep, "a", Sep, "a">>, <<"a", Sep, Sep, "b">>}

\* Text contents: "" and "A\u{20ac}"
Contents == {<<>>, <<65, 8364>>}

\* Filesystems the application may find at start: empty, or holding a file
\* b whose bytes (a Latin-1 e-acute) are not UTF-8.
InitialFs == {EmptyFs, [EmptyFs EXCEPT ![<<"b">>] = FileEntry(<<233>>)]}

\* Scalar values of 1, 2 and 3 bytes in UTF-8, and all Strings of at most
\* MaxContentLen of them.
CodePoints == {65, 233, 8364}
Strings == UNION {[1..n -> CodePoints] : n \in 0..MaxContentLen}
RoundTripPaths == {<<"b">>, <<"a", Sep, "b">>}

NoWrite == [set |-> FALSE, s |-> <<>>]
Wrote(c) == [set |-> TRUE, s |-> c]

NoCall == [cmd |-> "none", args |-> [none |-> TRUE], res |-> [kind |-> "none"]]

-----------------------------------------------------------------------------
(* Bootstrap: lib.rs run() *)

Commands ==
    {"get_data_dir", "read_file", "write_file",
     "show_save_dialog", "show_open_dialog", "is_desktop"}

\* tauri::generate_handler![...]
RegisteredHandlers == Commands

\* .plugin(...) calls on the Builder
RegisteredPlugins == {"shell"}

\* No picker is open.
NoPicker == [open |-> FALSE]

\* The windows generate_context!() configures: a "main" window, created
\* hidden, or none of that label.
ConfiguredWindows == {"absent", "hidden"}

Init ==
    /\ pc = "start"
    /\ plugins = {}
    /\ handlers = {}
    /\ window \in ConfiguredWindows
    /\ picker = NoPicker
    /\ fs \in InitialFs
    /\ written = [n \in Nodes |-> NoWrite]
    /\ last = NoCall

\* The setup closure: a debug build unwraps the main window and opens its
\* devtools; then the main window, if there is one, is shown and the result
\* of show() unwrapped. Gives the window afterwards, or a panic.
Setup(w, debug, show_ok) ==
    IF debug /\ w = "absent" THEN [panic |-> TRUE, window |-> w]
    ELSE IF w = "absent" THEN [panic |-> FALSE, window |-> w]
    ELSE IF ~show_ok THEN [panic |-> TRUE, window |-> w]
    ELSE [panic |-> FALSE, window |-> IF debug THEN "shown+devtools" ELSE "shown"]

\* run(): register the plugin and the command handlers on the Builder, run
\* it (expect panics when that fails), run setup, enter the event loop.
\* debug is the build profile, built whether the Builder could build and
\* run the application, show_ok whether the window system showed the window.
run ==
    /\ pc = "start"
    /\ plugins' = RegisteredPlugins
    /\ handlers' = RegisteredHandlers
    /\ \E debug \in BOOLEAN, built \in BOOLEAN, show_ok \in BOOLEAN :
        LET s == Setup(window, debug, show_ok) IN
        IF ~built
            THEN pc' = "panicked" /\ window' = window
            ELSE /\ pc' = IF s.panic THEN "panicked" ELSE "running"
                 /\ window' = s.window
    /\ UNCHANGED <<picker, fs, written, last>>

\* The front end can invoke a command once the application runs and the
\* command is registered.
Invocable(cmd) == pc = "running" /\ cmd \in handlers

-----------------------------------------------------------------------------
(* Filesystem commands *)

read_file_in(P) ==
    /\ Invocable("read_file")
    /\ \E p \in P :
        last' = [cmd |-> "read_file", args |-> [path |-> p], res |-> ReadFile(fs, p)]
    /\ UNCHANGED <<pc, plugins, handlers, window, picker, fs, written>>

\* Directories that exist in g and did not in f.
Made(f, g) == {n \in Nodes : f[n].kind = "none" /\ g[n].kind = "dir"}

write_file_in(P, C) ==
    /\ Invocable("write_file")
    /\ \E p \in P, c \in C :
        LET w == WriteFile(fs, p, c) IN
        /\ fs' = w.fs
        /\ written' = IF w.res.kind = "ok"
                        THEN [written EXCEPT ![PathBufFrom(p).comps] = Wrote(c)]
                        ELSE written
        /\ last' = [cmd |-> "write_file", args |-> [path |-> p, content |-> c],
                    res |-> w.res, made |-> Made(fs, w.fs)]
    /\ UNCHANGED <<pc, plugins, handlers, window, picker>>

read_file == read_file_in(Paths)

write_file == write_file_in(Paths, Contents)

-----------------------------------------------------------------------------
(* Data directory *)

\* What PathResolver::app_data_dir can answer: no data directory known, or
\* a directory as the OS spells it (bytes; the last one is not UTF-8).
AppDataDirOutcomes ==
    {[ok |-> FALSE, path |-> <<>>, err |-> "unknown path"],
     [ok |-> TRUE, path |-> <<47, 100>>, err |-> ""],
     [ok |-> TRUE, path |-> <<47, 195, 169>>, err |-> ""],
     [ok |-> TRUE, path |-> <<47, 233, 100>>, err |-> ""]}

\* commands.rs get_data_dir
GetDataDir(o) ==
    IF o.ok THEN Ok(FromUtf8Lossy(o.path)) ELSE Err(<<o.err>>)

get_data_dir ==
    /\ Invocable("get_data_dir")
    /\ \E o \in AppDataDirOutcomes :
        last' = [cmd |-> "get_data_dir", args |-> [resolved |-> o], res |-> GetDataDir(o)]
    /\ UNCHANGED <<pc, plugins, handlers, window, picker, fs, written>>

-----------------------------------------------------------------------------
(* Capability probe *)

\* Mutant: the probe answering as the web build would.
IsDesktopWeb == FALSE

\* commands.rs is_desktop
IsDesktop == TRUE

is_desktop ==
    /\ Invocable("is_desktop")
    /\ last' = [cmd |-> "is_desktop", args |-> [none |-> TRUE], res |-> Ok(IsDesktop)]
    /\ UNCHANGED <<pc, plugins, handlers, window, picker, fs, written>>

-----------------------------------------------------------------------------
(* Native file dialogs: tauri_plugin_dialog *)

None == [some |-> FALSE, v |-> <<>>]
Some(x) == [some |-> TRUE, v |-> x]

\* Filters the front end supplies: (label, extensions) pairs
FilterPool == {<<"Markdown", <<"md">>>>, <<"Text", <<"txt", "text">>>>}
FilterLists == UNION {[1..n -> FilterPool] : n \in 0..MaxFilters}
DefaultNames == {"note.md", ""}

\* Paths the picker can report, as the OS spells them: "/a", "/\u{e9}" and
\* two names that are not UTF-8 (a Latin-1 byte, a truncated sequence).
PickedPaths == {<<47, 97>>, <<47, 195, 169>>, <<47, 233>>, <<226, 130>>}

\* What the user can answer: dismiss the picker or choose.
OnePick == {None} \cup {Some(p) : p \in PickedPaths}
ManyPicks == {None} \cup {Some(ps) : ps \in UNION {[1..n -> PickedPaths] : n \in 1..MaxPicked}}

\* app.dialog(): the Dialog state the plugin manages, present only when the
\* plugin was registered; Manager::state panics otherwise.
HasDialog(ps) == "dialog" \in ps
NoDialogPanic == Panic("state() called before manage() for given type")

\* app.dialog().file(): a builder with no filter and no file name
FileDialog == [filters |-> <<>>, file_name |-> None]

\* FileDialogBuilder::add_filter
AddFilter(dialog, name, extensions) ==
    [dialog EXCEPT !.filters = Append(@, [name |-> name, extensions |-> extensions])]

\* for (name, extensions) in filters { dialog = dialog.add_filter(..) }
RECURSIVE AddFilters(_, _)
AddFilters(dialog, filters) ==
    IF filters = <<>> THEN dialog
    ELSE AddFilters(AddFilter(dialog, Head(filters)[1], Head(filters)[2]), Tail(filters))

\* FileDialogBuilder::set_file_name
SetFileName(dialog, name) == [dialog EXCEPT !.file_name = Some(name)]

\* FilePath::to_string: the path's Display, lossy where it is not UTF-8
PathToString(p) == FromUtf8Lossy(p)

\* The picker commands.rs show_save_dialog presents
SaveDialog(default_name, filters) ==
    SetFileName(AddFilters(FileDialog, filters), default_name)

\* commands.rs show_save_dialog, given the user's answer
ShowSaveDialog(answer) ==
    Ok(IF answer.some THEN Some(PathToString(answer.v)) ELSE None)

\* The picker commands.rs show_open_dialog presents
OpenDialog(filters) == AddFilters(FileDialog, filters)

\* commands.rs show_open_dialog, given the user's answer
ShowOpenDialog(multiple, answer) ==
    IF multiple
        THEN Ok(IF answer.some
                  THEN [i \in 1..Len(answer.v) |-> PathToString(answer.v[i])]
                  ELSE <<>>)
        ELSE Ok(IF answer.some THEN <<PathToString(answer.v)>> ELSE <<>>)

NotShown == [picker |-> "none"]

\* show_save_dialog up to blocking_save_file(): app.dialog() panics when no
\* Dialog state is managed; otherwise the picker is built and presented and
\* the command waits for the user, while the event loop goes on dispatching
\* the other commands.
show_save_dialog ==
    /\ Invocable("show_save_dialog")
    /\ \E name \in DefaultNames, filters \in FilterLists :
        LET args == [default_name |-> name, filters |-> filters] IN
        IF ~HasDialog(plugins)
            THEN /\ last' = [cmd |-> "show_save_dialog", args |-> args,
                             shown |-> NotShown, res |-> NoDialogPanic]
                 /\ picker' = picker
            ELSE /\ ~picker.open
                 /\ picker' = [open |-> TRUE, cmd |-> "show_save_dialog", args |-> args,
                               kind |-> "save", dialog |-> SaveDialog(name, filters)]
                 /\ last' = last
    /\ UNCHANGED <<pc, plugins, handlers, window, fs, written>>

\* show_open_dialog up to blocking_pick_files() / blocking_pick_file()
show_open_dialog ==
    /\ Invocable("show_open_dialog")
    /\ \E multiple \in BOOLEAN, filters \in FilterLists :
        LET args == [multiple |-> multiple, filters |-> filters] IN
        IF ~HasDialog(plugins)
            THEN /\ last' = [cmd |-> "show_open_dialog", args |-> args,
                             shown |-> NotShown, res |-> NoDialogPanic]
                 /\ picker' = picker
            ELSE /\ ~picker.open
                 /\ picker' = [open |-> TRUE, cmd |-> "show_open_dialog", args |-> args,
                               kind |-> IF multiple THEN "pick_files" ELSE "pick_file",
                               dialog |-> OpenDialog(filters)]
                 /\ last' = last
    /\ UNCHANGED <<pc, plugins, handlers, window, fs, written>>

\* The user answers the open picker and the command that waits on it
\* returns.
Answered(answer, res) ==
    /\ last' = [cmd |-> picker.cmd, args |-> picker.args,
                shown |-> [picker |-> picker.kind, dialog |-> picker.dialog,
                           answer |-> answer],
                res |-> res]
    /\ picker' = NoPicker
    /\ UNCHANGED <<pc, plugins, handlers, window, fs, written>>

\* blocking_save_file() returns: the rest of show_save_dialog
blocking_save_file ==
    /\ picker.open /\ picker.kind = "save"
    /\ \E answer \in OnePick : Answered(answer, ShowSaveDialog(answer))

\* blocking_pick_files() returns: the rest of show_open_dialog, multiple
blocking_pick_files ==
    /\ picker.open /\ picker.kind = "pick_files"
    /\ \E answer \in ManyPicks : Answered(answer, ShowOpenDialog(TRUE, answer))

\* blocking_pick_file() returns: the rest of show_open_dialog, single
blocking_pick_file ==
    /\ picker.open /\ picker.kind = "pick_file"
    /\ \E answer \in OnePick : Answered(answer, ShowOpenDialog(FALSE, answer))

-----------------------------------------------------------------------------
(* Specifications *)

Next ==
    \/ run
    \/ get_data_dir
    \/ read_file
    \/ write_file
    \/ show_save_dialog
    \/ show_open_dialog
    \/ is_desktop

\* The application as lib.rs builds it.
Spec == Init /\ [][Next]_vars

\* The filesystem commands on every String of at most MaxContentLen scalar
\* values, over two paths.
read_file_strings == read_file_in(RoundTripPaths)

write_file_strings == write_file_in(RoundTripPaths, Strings)

RoundTripNext ==
    \/ run
    \/ read_file_strings
    \/ write_file_strings

RoundTripSpec == Init /\ [][RoundTripNext]_vars

\* app.dialog() finds no Dialog state in the application run() builds, so
\* no picker is ever presented there and blocking_save_file,
\* blocking_pick_files and blocking_pick_file are never enabled: they are
\* steps of no behaviour of Spec.
PickerNeverOpens == ~picker.open /\ ~HasDialog(plugins)

-----------------------------------------------------------------------------
(* Vocabulary of the properties *)

\* The path names something that exists.
Exists(f, p) ==
    LET pb == PathBufFrom(p) IN
    /\ Walk(f, pb) = ""
    /\ Kind(f, pb.comps) # "none"
    /\ ~(pb.trail /\ Kind(f, pb.comps) = "file")

\* The path is spelled as a file name (it has a last component and no
\* trailing separator); FileOf is then the node it names.
NamesFile(p) == LET pb == PathBufFrom(p) IN pb.comps # <<>> /\ ~pb.trail
FileOf(p) == PathBufFrom(p).comps

\* The directories from the root down to the parent of p.
ParentChain(p) ==
    LET cs == PathBufFrom(p).comps IN {SubSeq(cs, 1, i) : i \in 1..(Len(cs) - 1)}

\* The parent directory of p does not exist.
ParentMissing(f, p) ==
    LET cs == PathBufFrom(p).comps IN
    Len(cs) >= 2 /\ Kind(f, Front(cs)) = "none"

\* Some directory on the way to p is a regular file.
ChainBlocked(f, p) == \E n \in ParentChain(p) : Kind(f, n) = "file"

LastIs(cmd) == last.cmd = cmd
StepOf(cmd) == last'.cmd = cmd

-----------------------------------------------------------------------------
(* C1 *)

\* C1: after write_file(p, c) returned success, read_file(p) returns success
\* with exactly c: the String survives the encoding to bytes, the file and
\* the decoding unchanged, whatever the file held before.
C1_RoundTrip ==
    (LastIs("write_file") /\ last.res.kind = "ok")
        => ReadFile(fs, last.args.path) = Ok(last.args.content)

\* A String of a two-byte and a three-byte character was written below a
\* directory the call created, and reads back.
C1_Witness ==
    /\ LastIs("write_file")
    /\ last.res.kind = "ok"
    /\ last.args.path = <<"a", Sep, "b">>
    /\ last.made = {<<"a">>}
    /\ last.args.content = <<233, 8364>>
    /\ ReadFile(fs, last.args.path) = Ok(<<233, 8364>>)

-----------------------------------------------------------------------------
(* C2 *)

\* C2 as stated: whenever the parent directory of p does not exist,
\* write_file(p, c) succeeds, the whole chain of directories down to the
\* parent exists afterwards and p holds c. Stated here for paths spelled as
\* file names only, which is the case the sentence has in mind.
C2_AsStated ==
    [][(StepOf("write_file") /\ ParentMissing(fs, last'.args.path)
            /\ NamesFile(last'.args.path))
        => /\ last'.res.kind = "ok"
           /\ \A n \in ParentChain(last'.args.path) : Kind(fs', n) = "dir"
           /\ ReadFile(fs', last'.args.path) = Ok(last'.args.content)]_vars

\* C2 amended: the same, provided no ancestor of p is a regular file and p
\* is spelled as a file name (no trailing separator); when an ancestor is a
\* regular file the call fails and the filesystem is left as it was.
C2_CreatesChain ==
    [][(StepOf("write_file") /\ ParentMissing(fs, last'.args.path))
        => IF ~ChainBlocked(fs, last'.args.path) /\ NamesFile(last'.args.path)
             THEN /\ last'.res.kind = "ok"
                  /\ \A n \in ParentChain(last'.args.path) : Kind(fs', n) = "dir"
                  /\ ReadFile(fs', last'.args.path) = Ok(last'.args.content)
             ELSE /\ last'.res.kind = "err"
                  /\ ChainBlocked(fs, last'.args.path) => fs' = fs]_vars

\* A write three levels down created both missing directories.
C2_Witness ==
    /\ LastIs("write_file")
    /\ last.res.kind = "ok"
    /\ last.made = {<<"a">>, <<"a", "b">>}
    /\ fs[<<"a", "b", "a">>].kind = "file"

-----------------------------------------------------------------------------
(* C3 *)

\* C3: read_file(p) of a path that does not exist returns an error whose
\* text starts with "Failed to read file", and changes nothing on disk: p
\* still does not exist.
C3_ReadMissing ==
    [][(StepOf("read_file") /\ ~Exists(fs, last'.args.path))
        => /\ last'.res.kind = "err"
           /\ Head(last'.res.msg) = "Failed to read file: "
           /\ fs' = fs
           /\ ~Exists(fs', last'.args.path)]_vars

\* A read of a/b failed while a/b does not exist.
C3_Witness ==
    /\ LastIs("read_file")
    /\ last.args.path = <<"a", Sep, "b">>
    /\ ~Exists(fs, last.args.path)
    /\ last.res.kind = "err"

-----------------------------------------------------------------------------
(* C4 *)

IsDialogCall == LastIs("show_save_dialog") \/ LastIs("show_open_dialog")

\* C4: an invocation of a dialog command ends in a success value and never
\* in an error, whatever the user answers; a dismissed save picker gives
\* success with no path, a dismissed open picker (single or multiple) gives
\* success with an empty list.
C4_CancelIsNotAnError ==
    IsDialogCall =>
        /\ last.res.kind = "ok"
        /\ (last.shown.picker = "save" /\ ~last.shown.answer.some)
            => last.res = Ok(None)
        /\ (last.shown.picker \in {"pick_file", "pick_files"} /\ ~last.shown.answer.some)
            => last.res = Ok(<<>>)

-----------------------------------------------------------------------------
(* C5 *)

\* C5: an invocation of show_open_dialog returns a list: with multiple =
\* false of at most one element, the picked path when one was picked; with
\* multiple = true of one element per picked path, in the picker's order.
\* Each element is the path as a String.
C5_OpenReturnsThePicks ==
    LastIs("show_open_dialog") =>
        /\ last.res.kind = "ok"
        /\ last.shown.picker = (IF last.args.multiple THEN "pick_files" ELSE "pick_file")
        /\ LET answer == last.shown.answer
               paths == last.res.val
           IN  /\ ~last.args.multiple =>
                    /\ Len(paths) <= 1
                    /\ Len(paths) = (IF answer.some THEN 1 ELSE 0)
                    /\ answer.some => paths[1] = PathToString(answer.v)
               /\ last.args.multiple =>
                    /\ Len(paths) = (IF answer.some THEN Len(answer.v) ELSE 0)
                    /\ \A i \in 1..Len(paths) : paths[i] = PathToString(answer.v[i])

-----------------------------------------------------------------------------
(* C6 *)

\* C6: in the application run() builds, the dialog state is there whenever
\* show_save_dialog can be invoked, and an invocation presents the save
\* picker with every supplied filter, in order, and the default file name,
\* and returns the chosen path or nothing.
C6_SaveDialogPresented ==
    LastIs("show_save_dialog") =>
        /\ HasDialog(plugins)
        /\ last.shown.picker = "save"
        /\ last.shown.dialog.file_name = Some(last.args.default_name)
        /\ Len(last.shown.dialog.filters) = Len(last.args.filters)
        /\ last.res.kind = "ok"

-----------------------------------------------------------------------------
(* C7 *)

\* C7: a failed write_file reports "Failed to create directory: " followed
\* by the OS error when the parent chain could not be created (a regular
\* file stands in the way), and "Failed to write file: " followed by the OS
\* error otherwise, also when the path has no parent; a failed get_data_dir
\* reports the resolver's error text alone.
C7_ErrorPrefixes ==
    [][/\ (StepOf("write_file") /\ last'.res.kind = "err") =>
            /\ Len(last'.res.msg) = 2
            /\ last'.res.msg[1] \in {"Failed to create directory: ", "Failed to write file: "}
            /\ last'.res.msg[1] = "Failed to create directory: "
                <=> ChainBlocked(fs, last'.args.path)
            /\ last'.res.msg[2] \in {ENOENT, EEXIST, ENOTDIR, EISDIR}
       /\ (StepOf("get_data_dir") /\ last'.res.kind = "err") =>
            last'.res.msg = <<last'.args.resolved.err>>]_vars

\* A write to the root, which has no parent, failed at the write.
C7_Witness ==
    /\ LastIs("write_file")
    /\ last.args.path = <<Sep>>
    /\ ~Parent(PathBufFrom(last.args.path)).some
    /\ last.res.kind = "err"
    /\ last.res.msg[1] = "Failed to write file: "

-----------------------------------------------------------------------------
(* C8 *)

\* C8: is_desktop returns true whatever happened before, and the running
\* application has exactly the six commands registered, is_desktop among
\* them.
C8_IsDesktop ==
    /\ LastIs("is_desktop") => last.res = Ok(TRUE)
    /\ pc = "running" =>
        handlers = {"get_data_dir", "read_file", "write_file",
                    "show_save_dialog", "show_open_dialog", "is_desktop"}

\* is_desktop answered after a write_file had failed (it left the empty
\* directory a behind) and another had succeeded.
C8_Witness ==
    /\ LastIs("is_desktop")
    /\ last.res.kind = "ok"
    /\ fs[<<"a">>].kind = "dir"
    /\ \A n \in Nodes : Len(n) > 1 => fs[n].kind = "none"
    /\ written[<<"b">>].set

-----------------------------------------------------------------------------
(* C9 *)

\* The filesystem f with the missing directories on the way to p created.
WithParentChain(f, p) ==
    [n \in Nodes |-> IF n \in ParentChain(p) /\ f[n].kind = "none" THEN DirEntry ELSE f[n]]

\* C9: the directory step comes first and a failure there ends the call:
\* nothing is written and every file keeps its bytes. A call that fails at
\* the write step is not rolled back: it leaves the filesystem with the
\* parent chain created and nothing else changed. A call that succeeds
\* changed the file, created the chain and touched nothing else.
C9_TwoStepsNoRollback ==
    [][StepOf("write_file") =>
        LET p == last'.args.path IN
        /\ (last'.res.kind = "err" /\ last'.res.msg[1] = "Failed to create directory: ")
            => \A n \in Nodes : fs[n].kind = "file" => fs'[n] = fs[n]
        /\ (last'.res.kind = "err" /\ last'.res.msg[1] = "Failed to write file: ")
            => fs' = WithParentChain(fs, p)
        /\ last'.res.kind = "ok"
            => /\ \A n \in Nodes \ {FileOf(p)} : fs'[n] = WithParentChain(fs, p)[n]
               /\ fs'[FileOf(p)] = FileEntry(AsBytes(last'.args.content))]_vars

\* A write failed at the write step after the call had created a directory.
C9_Witness ==
    /\ LastIs("write_file")
    /\ last.res.kind = "err"
    /\ last.res.msg[1] = "Failed to write file: "
    /\ last.made # {}
    /\ \A n \in last.made : fs[n].kind = "dir"

-----------------------------------------------------------------------------
(* C10 *)

\* C10: after any sequence of calls, read_file(p) returns what the most
\* recent successful write_file to the file p names wrote, replaced and not
\* appended. The history written[n] changes only when a write_file to n
\* succeeds, so every other step (a read_file, a write_file to another
\* file, a failed write_file) must have left what read_file(p) returns as
\* it was. Two path strings that spell the same file count as the same
\* path.
C10_LastWriteWins ==
    \A p \in Paths :
        (NamesFile(p) /\ FileOf(p) \in Nodes /\ written[FileOf(p)].set)
            => ReadFile(fs, p) = Ok(written[FileOf(p)].s)

\* b, which held other bytes at start, was written after a/b and a/a; a/b
\* still holds its content.
C10_Witness ==
    /\ LastIs("write_file")
    /\ last.res.kind = "ok"
    /\ FileOf(last.args.path) = <<"b">>
    /\ written[<<"b">>] = Wrote(<<>>)
    /\ written[<<"a", "b">>] = Wrote(<<65, 8364>>)
    /\ written[<<"a", "a">>] = Wrote(<<>>)
    /\ fs[<<"b">>] = FileEntry(<<>>)
    /\ ReadFile(fs, <<"a", Sep, Sep, "b">>) = Ok(<<65, 8364>>)

=============================================================================
